---- MODULE Spec2Model ----
(***************************************************************************)
(* CookBook API (src/fast_api): a FastAPI service over three SQL tables,   *)
(* recipes, ingredients and the association table recipe_ingredient.       *)
(*                                                                         *)
(* Spec     : the single-process service.  Every handler of main.py is an  *)
(*            `async def` with no await in its body, so one handler body   *)
(*            runs to completion before the next one starts.               *)
(* SpecConc : several worker processes over the same database file; each   *)
(*            GET /recipes/{id} has its own Session and the workers        *)
(*            interleave at the store boundaries (SELECT, COMMIT, refresh).*)
(***************************************************************************)
EXTENDS Integers, Sequences, FiniteSets, TLC

VARIABLES
    recipes,            \* table recipes: rows [id, title, cooking_time, description, views_count]
    ingredients,        \* table ingredients: rows [id, name]
    recipe_ingredient,  \* table recipe_ingredient: rows [recipe_id, ingredient_id]
    req,                \* the last request received
    resp,               \* the last response sent: [op, status, body]
    sess,               \* per worker: the Recipe object its Session holds
    served              \* per recipe id: number of detail fetches answered 200

vars == <<recipes, ingredients, recipe_ingredient, req, resp, sess, served>>

store == <<recipes, ingredients, recipe_ingredient>>

-----------------------------------------------------------------------------
(* Bounds of the model *)

\* recipes created through POST /recipes
MaxCreated == 1

\* detail fetches answered (sum over all recipes)
MaxViews == 2

\* worker processes of SpecConc
NumSessions == 2

-----------------------------------------------------------------------------
(* Program constants *)

\* schemas.py: RecipeBase.title max_length
TitleMaxLength == 200

\* HTTP status codes used by main.py
HTTP_200_OK == 200
HTTP_201_CREATED == 201
HTTP_404_NOT_FOUND == 404

\* 422 (request validation) and 500 (unhandled exception) are sent by the
\* framework and appear as literals below.

\* the string of n characters "a"
RECURSIVE Rep(_)
Rep(n) ==
    IF n = 0 THEN ""
    ELSE LET half == Rep(n \div 2)
         IN  IF n % 2 = 0 THEN half \o half ELSE half \o half \o "a"

-----------------------------------------------------------------------------
(* Generic helpers *)

Range(s) == {s[i] : i \in 1..Len(s)}

Max(S) == CHOOSE m \in S : \A x \in S : x <= m

Min(S) == CHOOSE m \in S : \A x \in S : m <= x

RECURSIVE SumOver(_, _)
SumOver(f, D) ==
    IF D = {} THEN 0
    ELSE LET d == CHOOSE x \in D : TRUE
         IN  f[d] + SumOver(f, D \ {d})

\* INTEGER PRIMARY KEY without AUTOINCREMENT: the largest id in the table + 1
NextId(rows) == IF rows = {} THEN 1 ELSE Max({r.id : r \in rows}) + 1

-----------------------------------------------------------------------------
(* database.py: the seed data of populate_test_data *)

ingredients_data ==
    << "Spaghetti", "Bacon", "Eggs", "Parmesan", "Garlic", "Cream",
       "Flour", "Sugar", "Apples", "Cinnamon", "Butter", "Egg",
       "Chicken fillet", "Onion", "Carrot", "Rice", "Soy sauce", "Ginger",
       "Vegetable oil", "Green onion", "Sesame" >>

\* the three Recipe objects, with the positions (1-based) in ingredients_data
\* of the Ingredient objects each one is built with
carbonara ==
    [title |-> "Spaghetti Carbonara", cooking_time |-> 20,
     description |-> "Classic Italian carbonara pasta.",
     ingredients |-> <<1, 2, 3, 4, 5>>]

apple_pie ==
    [title |-> "Apple pie", cooking_time |-> 45,
     description |-> "Home-made apple pie with cinnamon.",
     ingredients |-> <<7, 8, 9, 10, 11, 12>>]

chicken_rice ==
    [title |-> "Asian chicken with rice", cooking_time |-> 30,
     description |-> "Fragrant Asian dish of chicken and rice.",
     ingredients |-> <<13, 14, 15, 16, 17, 18, 19, 20, 21>>]

seed_recipes == <<carbonara, apple_pie, chicken_rice>>

-----------------------------------------------------------------------------
(* The store: what one flush + COMMIT writes *)

\* models.py: Ingredient.name is unique=True
UniqueNameViolation(names, table) ==
    \/ \E i, j \in 1..Len(names) : i < j /\ names[i] = names[j]
    \/ \E i \in 1..Len(names) : \E row \in table : row.name = names[i]

\* INSERT INTO ingredients, one row per added object, ids in insertion order
InsertIngredients(names, table) ==
    LET first == NextId(table)
    IN  table \cup {[id |-> first + i - 1, name |-> names[i]] : i \in 1..Len(names)}

\* models.py: a recipes row; views_count takes its column default
RecipeRow(rid, title, cooking_time, description) ==
    [id |-> rid, title |-> title, cooking_time |-> cooking_time,
     description |-> description, views_count |-> 0]

\* The unit of work emits one recipe_ingredient INSERT per member of the
\* Recipe.ingredients list, repeated members included.
secondary_insert(rid, ingredient_ids) ==
    [i \in 1..Len(ingredient_ids) |->
        [recipe_id |-> rid, ingredient_id |-> ingredient_ids[i]]]

\* models.py: (recipe_id, ingredient_id) is the primary key of recipe_ingredient
PrimaryKeyViolation(rows, table) ==
    \/ \E i, j \in 1..Len(rows) : i < j /\ rows[i] = rows[j]
    \/ \E i \in 1..Len(rows) : rows[i] \in table


\* variants of UpdateViews: the write left out, and the WHERE clause left out
UpdateViews_dropped(table, rid, v) == table

UpdateViews_every_row(table, rid, v) == {[r EXCEPT !.views_count = v] : r \in table}

\* UPDATE recipes SET views_count = v WHERE id = rid
UpdateViews(table, rid, v) ==
    {IF r.id = rid THEN [r EXCEPT !.views_count = v] ELSE r : r \in table}

-----------------------------------------------------------------------------
(* Queries *)

\* variant of query_recipe: the filter left out
query_recipe_unfiltered(recipe_id, table) == table

\* db.query(Recipe).filter(Recipe.id == recipe_id): the matching rows
query_recipe(recipe_id, table) == {r \in table : r.id = recipe_id}

\* db.query(Ingredient).filter(Ingredient.id == ingredient_id): the matching rows
query_ingredient(ingredient_id, table) == {r \in table : r.id = ingredient_id}

\* variant of Precedes: views_count ascending
Precedes_asc_views(a, b) ==
    \/ a.views_count < b.views_count
    \/ a.views_count = b.views_count /\ a.cooking_time < b.cooking_time

\* order_by(desc(Recipe.views_count), asc(Recipe.cooking_time)): a is placed before b
Precedes(a, b) ==
    \/ a.views_count > b.views_count
    \/ a.views_count = b.views_count /\ a.cooking_time < b.cooking_time

\* The result lists .all() may return: every row once, in an order that
\* respects order_by; rows equal on both keys come in any order.
RECURSIVE order_by(_)
order_by(rows) ==
    IF rows = {} THEN {<<>>}
    ELSE LET firsts == {r \in rows : \A o \in rows : ~Precedes(o, r)}
         IN  UNION {{<<r>> \o t : t \in order_by(rows \ {r})} : r \in firsts}

\* rows listed by ascending id (the primary-key order of an unordered SELECT)
RECURSIVE ById(_)
ById(rows) ==
    IF rows = {} THEN <<>>
    ELSE LET r == CHOOSE x \in rows : \A o \in rows : x.id <= o.id
         IN  <<r>> \o ById(rows \ {r})

\* Recipe.ingredients: the ingredients joined to the recipe through recipe_ingredient
Recipe_ingredients(rid, ri, ings) ==
    {g \in ings : [recipe_id |-> rid, ingredient_id |-> g.id] \in ri}

-----------------------------------------------------------------------------
(* schemas.py *)

IngredientResponse(g) == [id |-> g.id, name |-> g.name]

RecipeListResponse(r) ==
    [id |-> r.id, title |-> r.title, cooking_time |-> r.cooking_time,
     views_count |-> r.views_count]

RecipeResponse(r, ri, ings) ==
    LET linked == ById(Recipe_ingredients(r.id, ri, ings))
    IN  [id |-> r.id, title |-> r.title, cooking_time |-> r.cooking_time,
         description |-> r.description, views_count |-> r.views_count,
         ingredients |-> [i \in 1..Len(linked) |-> IngredientResponse(linked[i])]]

RecipeCreateFields == {"title", "cooking_time", "description", "ingredient_ids"}

\* variant of RecipeCreate_errors: cooking_time validated with ge=0
RecipeCreate_errors_ge(p) ==
    {f \in {"title", "cooking_time", "description", "ingredient_ids"} : f \notin DOMAIN p}
    \cup (IF "title" \in DOMAIN p /\ Len(p.title) > 200 THEN {"title"} ELSE {})
    \cup (IF "cooking_time" \in DOMAIN p /\ ~(p.cooking_time >= 0)
          THEN {"cooking_time"} ELSE {})

\* RecipeBase / RecipeCreate: the fields of payload p that fail validation.
\* Every field is required (Field(...)); title has max_length, cooking_time has gt.
RecipeCreate_errors(p) ==
    {f \in RecipeCreateFields : f \notin DOMAIN p}
    \cup (IF "title" \in DOMAIN p /\ Len(p.title) > TitleMaxLength
          THEN {"title"} ELSE {})
    \cup (IF "cooking_time" \in DOMAIN p /\ ~(p.cooking_time > 0)
          THEN {"cooking_time"} ELSE {})


-----------------------------------------------------------------------------
(* Transactions *)

\* db.add(new_recipe) + flush: the tables as the open transaction sees them,
\* and whether a constraint rejected one of the INSERTs
flush_recipe(p, rec, ri) ==
    LET rid  == NextId(rec)
        rows == secondary_insert(rid, p.ingredient_ids)
    IN  [ok |-> ~PrimaryKeyViolation(rows, ri),
         id |-> rid,
         recipes |-> rec \cup {RecipeRow(rid, p.title, p.cooking_time, p.description)},
         recipe_ingredient |-> ri \cup Range(rows)]

\* variant of commit: a failed commit keeps the recipes rows already written
commit_keeps_rows(before, after, ok) ==
    IF ok THEN after
    ELSE [recipes |-> after.recipes, recipe_ingredient |-> before.recipe_ingredient]

\* db.commit(): the transaction's writes become the tables, all of them at
\* once; when it raises, get_db closes the session, which rolls all of them back
commit(before, after, ok) == IF ok THEN after ELSE before

\* variant of missing_positions: only the first id is looked up
missing_positions_first_only(ingredient_ids, ings) ==
    {i \in 1..Len(ingredient_ids) : i = 1 /\ {r \in ings : r.id = ingredient_ids[i]} = {}}

\* the ids of ingredient_ids, by position, that match no ingredient
missing_positions(ingredient_ids, ings) ==
    {i \in 1..Len(ingredient_ids) : query_ingredient(ingredient_ids[i], ings) = {}}

-----------------------------------------------------------------------------
(* Requests *)

Titles == {"", "a", Rep(TitleMaxLength), Rep(TitleMaxLength + 1)}

CookingTimes == {-1, 0, 20}

Descriptions == {"", "d"}

IngredientIdLists == {<<>>, <<1, 2>>, <<1, 1>>, <<99, 1>>, <<1, 99>>, <<99, 100>>}

\* a payload with one field left out
Without(p, f) == [g \in (DOMAIN p) \ {f} |-> p[g]]

BasePayload ==
    [title |-> "a", cooking_time |-> 20, description |-> "d", ingredient_ids |-> <<1, 2>>]

\* the payloads a client sends: BasePayload with one field varied or left out,
\* and payloads with several fields at their extremes
Payloads ==
    {[BasePayload EXCEPT !.title = t] : t \in Titles}
    \cup {[BasePayload EXCEPT !.cooking_time = c] : c \in CookingTimes}
    \cup {[BasePayload EXCEPT !.description = d] : d \in Descriptions}
    \cup {[BasePayload EXCEPT !.ingredient_ids = l] : l \in IngredientIdLists}
    \cup {Without(BasePayload, f) : f \in RecipeCreateFields}
    \cup {[title |-> "", cooking_time |-> 20, description |-> "", ingredient_ids |-> <<>>],
          [title |-> Rep(TitleMaxLength), cooking_time |-> 20, description |-> "",
           ingredient_ids |-> <<1, 1>>],
          [title |-> Rep(TitleMaxLength + 1), cooking_time |-> 0, description |-> "",
           ingredient_ids |-> <<99, 100>>]}

\* recipe ids a client asks for: every id the store can hold, and one beyond
RecipeIds == 1..(Len(seed_recipes) + MaxCreated + 1)

Sessions == 1..NumSessions

\* rows that POST /recipes created (no payload carries a seed title)
Created(rows) == {r \in rows : \A i \in 1..Len(seed_recipes) : r.title # seed_recipes[i].title}

Response(op, status, body) == [op |-> op, status |-> status, body |-> body]

Idle == [pc |-> "idle", id |-> 0, views_count |-> 0]

-----------------------------------------------------------------------------
Init ==
    /\ recipes = {}
    /\ ingredients = {}
    /\ recipe_ingredient = {}
    /\ req = [op |-> "startup"]
    /\ resp = Response("startup", 0, <<>>)
    /\ sess = [s \in Sessions |-> Idle]
    /\ served = [i \in RecipeIds |-> 0]

-----------------------------------------------------------------------------
(* database.py: populate_test_data.  fault names the commit, if any, at     *)
(* which the store fails.                                                   *)

populate_test_data(fault) ==
    /\ req' = [op |-> "populate_test_data", fault |-> fault]
    /\ UNCHANGED <<sess, served>>
    /\ IF Cardinality(recipes) > 0
       THEN /\ UNCHANGED store
            /\ resp' = Response("populate_test_data", 0, <<[detail |-> "skipped"]>>)
       ELSE IF fault = "commit1" \/ UniqueNameViolation(ingredients_data, ingredients)
       THEN \* except: db.rollback()
            /\ UNCHANGED store
            /\ resp' = Response("populate_test_data", 0, <<[detail |-> "error"]>>)
       ELSE LET first  == NextId(ingredients)
                ing_id(k) == first + k - 1
                rid(n) == NextId(recipes) + n - 1
                links(n) == secondary_insert(rid(n),
                               [k \in 1..Len(seed_recipes[n].ingredients) |->
                                   ing_id(seed_recipes[n].ingredients[k])])
                after  == [recipes |->
                              recipes \cup
                              {RecipeRow(rid(n), seed_recipes[n].title,
                                         seed_recipes[n].cooking_time,
                                         seed_recipes[n].description)
                                 : n \in 1..Len(seed_recipes)},
                           recipe_ingredient |->
                              recipe_ingredient \cup
                              UNION {Range(links(n)) : n \in 1..Len(seed_recipes)}]
                before == [recipes |-> recipes, recipe_ingredient |-> recipe_ingredient]
                done   == commit(before, after, fault # "commit2")
            IN  /\ ingredients' = InsertIngredients(ingredients_data, ingredients)
                /\ recipes' = done.recipes
                /\ recipe_ingredient' = done.recipe_ingredient
                /\ resp' = Response("populate_test_data", 0,
                                    <<[detail |-> IF fault = "commit2" THEN "error"
                                                  ELSE "populated"]>>)

-----------------------------------------------------------------------------
(* main.py: the handlers *)

root ==
    /\ req' = [op |-> "root"]
    /\ resp' = Response("root", HTTP_200_OK, <<[message |-> "welcome", version |-> "1.0.0"]>>)
    /\ UNCHANGED <<store, sess, served>>

get_recipes ==
    /\ req' = [op |-> "get_recipes"]
    /\ \E rows \in order_by(recipes) :
          resp' = Response("get_recipes", HTTP_200_OK,
                           [i \in 1..Len(rows) |-> RecipeListResponse(rows[i])])
    /\ UNCHANGED <<store, sess, served>>

get_ingredients ==
    /\ req' = [op |-> "get_ingredients"]
    /\ resp' = Response("get_ingredients", HTTP_200_OK,
                        LET rows == ById(ingredients)
                        IN  [i \in 1..Len(rows) |-> IngredientResponse(rows[i])])
    /\ UNCHANGED <<store, sess, served>>

\* the whole handler, run without interruption
get_recipe(recipe_id, store_ok) ==
    /\ req' = [op |-> "get_recipe", recipe_id |-> recipe_id, store_ok |-> store_ok]
    /\ SumOver(served, RecipeIds) < MaxViews
    /\ UNCHANGED <<ingredients, recipe_ingredient, sess>>
    /\ LET found == query_recipe(recipe_id, recipes)
       IN  IF found = {}
           THEN /\ resp' = Response("get_recipe", HTTP_404_NOT_FOUND,
                                    <<[detail |-> "recipe not found", id |-> recipe_id]>>)
                /\ UNCHANGED <<recipes, served>>
           ELSE LET recipe == CHOOSE r \in found : TRUE
                    before == [recipes |-> recipes, recipe_ingredient |-> recipe_ingredient]
                    after  == [recipes |-> UpdateViews(recipes, recipe.id,
                                                       recipe.views_count + 1),
                               recipe_ingredient |-> recipe_ingredient]
                    done   == commit(before, after, store_ok)
                IN  /\ recipes' = done.recipes
                    /\ IF store_ok
                       THEN \* db.refresh(recipe): the row as stored now
                            /\ resp' = Response("get_recipe", HTTP_200_OK,
                                   <<RecipeResponse(
                                        CHOOSE r \in query_recipe(recipe.id, done.recipes) : TRUE,
                                        recipe_ingredient, ingredients)>>)
                            /\ served' = [served EXCEPT ![recipe.id] = @ + 1]
                       ELSE /\ resp' = Response("get_recipe", 500, <<[detail |-> "Internal Server Error"]>>)
                            /\ UNCHANGED served

create_recipe(p, store_ok) ==
    /\ req' = [op |-> "create_recipe", payload |-> p, store_ok |-> store_ok]
    /\ Cardinality(Created(recipes)) < MaxCreated
    /\ UNCHANGED <<ingredients, sess, served>>
    /\ IF RecipeCreate_errors(p) # {}
       THEN /\ resp' = Response("create_recipe", 422,
                                <<[detail |-> "validation error", fields |-> RecipeCreate_errors(p)]>>)
            /\ UNCHANGED <<recipes, recipe_ingredient>>
       ELSE IF missing_positions(p.ingredient_ids, ingredients) # {}
       THEN /\ resp' = Response("create_recipe", HTTP_404_NOT_FOUND,
                                <<[detail |-> "ingredient not found",
                                   id |-> p.ingredient_ids[
                                            Min(missing_positions(p.ingredient_ids, ingredients))]]>>)
            /\ UNCHANGED <<recipes, recipe_ingredient>>
       ELSE LET before  == [recipes |-> recipes, recipe_ingredient |-> recipe_ingredient]
                flushed == flush_recipe(p, recipes, recipe_ingredient)
                after   == [recipes |-> flushed.recipes,
                            recipe_ingredient |-> flushed.recipe_ingredient]
                ok      == flushed.ok /\ store_ok
                done    == commit(before, after, ok)
            IN  /\ recipes' = done.recipes
                /\ recipe_ingredient' = done.recipe_ingredient
                /\ resp' = IF ok
                           THEN Response("create_recipe", HTTP_201_CREATED,
                                    <<RecipeResponse(
                                         CHOOSE r \in query_recipe(flushed.id, done.recipes) : TRUE,
                                         done.recipe_ingredient, ingredients)>>)
                           ELSE Response("create_recipe", 500, <<[detail |-> "Internal Server Error"]>>)


-----------------------------------------------------------------------------
(* get_recipe in a worker process of its own: the steps between which the   *)
(* other workers run                                                        *)

InFlight == {s \in Sessions : sess[s].pc # "idle"}

\* recipe = db.query(Recipe).filter(Recipe.id == recipe_id).first()
get_recipe_query(s, recipe_id) ==
    /\ req' = [op |-> "get_recipe", recipe_id |-> recipe_id, session |-> s]
    /\ sess[s].pc = "idle"
    /\ SumOver(served, RecipeIds) + Cardinality(InFlight) < MaxViews
    /\ UNCHANGED <<store, served>>
    /\ LET found == query_recipe(recipe_id, recipes)
       IN  IF found = {}
           THEN /\ resp' = Response("get_recipe", HTTP_404_NOT_FOUND,
                                    <<[detail |-> "recipe not found", id |-> recipe_id]>>)
                /\ UNCHANGED sess
           ELSE LET recipe == CHOOSE r \in found : TRUE
                IN  /\ sess' = [sess EXCEPT ![s] = [pc |-> "loaded", id |-> recipe.id,
                                                    views_count |-> recipe.views_count]]
                    /\ UNCHANGED resp

\* recipe.views_count += 1; db.commit()
get_recipe_commit(s, store_ok) ==
    /\ UNCHANGED req
    /\ sess[s].pc = "loaded"
    /\ UNCHANGED <<ingredients, recipe_ingredient, served>>
    /\ LET before == [recipes |-> recipes, recipe_ingredient |-> recipe_ingredient]
           after  == [recipes |-> UpdateViews(recipes, sess[s].id, sess[s].views_count + 1),
                      recipe_ingredient |-> recipe_ingredient]
           done   == commit(before, after, store_ok)
       IN  /\ recipes' = done.recipes
           /\ IF store_ok
              THEN /\ sess' = [sess EXCEPT ![s].pc = "committed"]
                   /\ UNCHANGED resp
              ELSE /\ sess' = [sess EXCEPT ![s] = Idle]
                   /\ resp' = Response("get_recipe", 500, <<[detail |-> "Internal Server Error"]>>)

\* db.refresh(recipe); return recipe
get_recipe_refresh(s) ==
    /\ UNCHANGED req
    /\ sess[s].pc = "committed"
    /\ UNCHANGED store
    /\ resp' = Response("get_recipe", HTTP_200_OK,
                        <<RecipeResponse(CHOOSE r \in query_recipe(sess[s].id, recipes) : TRUE,
                                         recipe_ingredient, ingredients)>>)
    /\ served' = [served EXCEPT ![sess[s].id] = @ + 1]
    /\ sess' = [sess EXCEPT ![s] = Idle]

-----------------------------------------------------------------------------
Faults == {"none", "commit1", "commit2"}

Next ==
    \/ \E fault \in Faults : populate_test_data(fault)
    \/ root
    \/ get_recipes
    \/ get_ingredients
    \/ \E recipe_id \in RecipeIds, store_ok \in BOOLEAN : get_recipe(recipe_id, store_ok)
    \/ \E p \in Payloads, store_ok \in BOOLEAN : create_recipe(p, store_ok)

Spec == Init /\ [][Next]_vars

NextConc ==
    \/ \E fault \in Faults : populate_test_data(fault)
    \/ \E s \in Sessions, recipe_id \in RecipeIds : get_recipe_query(s, recipe_id)
    \/ \E s \in Sessions, store_ok \in BOOLEAN : get_recipe_commit(s, store_ok)
    \/ \E s \in Sessions : get_recipe_refresh(s)

SpecConc == Init /\ [][NextConc]_vars

TypeOK ==
    /\ \A r \in recipes : r.views_count \in Nat /\ r.cooking_time > 0
    /\ \A s \in Sessions : sess[s].pc \in {"idle", "loaded", "committed"}

-----------------------------------------------------------------------------
(* Properties *)

IngredientIdsStored == {g.id : g \in ingredients}

RecipeIdsStored == {r.id : r \in recipes}

\* C1: the list GET /recipes returns holds every stored recipe exactly once,
\* and whenever r1 comes before r2 in it, r1.views_count > r2.views_count, or
\* the two are equal and r1.cooking_time <= r2.cooking_time.
C1_ListSorted ==
    resp.op = "get_recipes" =>
        LET b == resp.body
        IN  /\ resp.status = 200
            /\ Len(b) = Cardinality(recipes)
            /\ \A r \in recipes :
                  \E i \in 1..Len(b) :
                     /\ b[i].id = r.id /\ b[i].title = r.title
                     /\ b[i].cooking_time = r.cooking_time
                     /\ b[i].views_count = r.views_count
                     /\ \A j \in 1..Len(b) : b[j].id = r.id => j = i
            /\ \A i, j \in 1..Len(b) :
                  i < j =>
                     \/ b[i].views_count > b[j].views_count
                     \/ /\ b[i].views_count = b[j].views_count
                        /\ b[i].cooking_time <= b[j].cooking_time

\* a list of four recipes in which both sort keys decide a place
C1_Witness ==
    /\ resp.op = "get_recipes"
    /\ Len(resp.body) = 4
    /\ resp.body[1].views_count > resp.body[2].views_count
    /\ \E i \in 2..3 :
          /\ resp.body[i].views_count = resp.body[i + 1].views_count
          /\ resp.body[i].cooking_time < resp.body[i + 1].cooking_time

\* C2: with no other request interleaved and no store failure, GET /recipes/{id}
\* of an existing recipe with stored views_count v answers 200 with
\* views_count v + 1 and leaves v + 1 stored; a fetch that follows a fetch of
\* the same recipe answers one more than the fetch before it.
C2_DetailCountsView ==
    [][\A r \in recipes :
          (req'.op = "get_recipe" /\ req'.recipe_id = r.id /\ req'.store_ok) =>
             /\ resp'.op = "get_recipe"
             /\ resp'.status = 200
             /\ resp'.body[1].id = r.id
             /\ resp'.body[1].views_count = r.views_count + 1
             /\ \E r2 \in recipes' : r2.id = r.id /\ r2.views_count = r.views_count + 1
             /\ (resp.op = "get_recipe" /\ resp.status = 200 /\ resp.body[1].id = r.id)
                   => resp'.body[1].views_count = resp.body[1].views_count + 1
      ]_vars

\* the second fetch of a recipe has answered
C2_Witness ==
    /\ req.op = "get_recipe"
    /\ resp.op = "get_recipe"
    /\ resp.status = 200
    /\ resp.body[1].views_count = 2
    /\ \E r \in recipes : r.id = resp.body[1].id /\ r.views_count = 2

\* C3: once no GET /recipes/{id} for a recipe is in flight, its stored
\* views_count is the number of fetches of it that answered 200, however the
\* workers' fetches were interleaved (a new recipe starts at 0).
C3_NoLostIncrement ==
    \A r \in recipes :
        (\A s \in Sessions : sess[s].pc = "idle" \/ sess[s].id # r.id)
            => r.views_count = served[r.id]



\* the framework hands the payload to the handler: the schema accepted it
Handled(p) == RecipeCreate_errors(p) = {}

\* C4: POST /recipes with a payload the schema accepts, one of whose
\* ingredient_ids matches no stored ingredient, answers 404 naming an id of the
\* payload that matches no ingredient, and leaves recipes, recipe_ingredient
\* and ingredients as they were, wherever the missing id sits in the list.
C4_MissingIngredientRejected ==
    [][( /\ req'.op = "create_recipe"
         /\ Handled(req'.payload)
         /\ \E i \in 1..Len(req'.payload.ingredient_ids) :
               req'.payload.ingredient_ids[i] \notin IngredientIdsStored )
       => /\ resp'.op = "create_recipe"
          /\ resp'.status = 404
          /\ resp'.body[1].id \in Range(req'.payload.ingredient_ids)
          /\ resp'.body[1].id \notin IngredientIdsStored
          /\ recipes' = recipes
          /\ recipe_ingredient' = recipe_ingredient
          /\ ingredients' = ingredients
      ]_vars

\* a 404 for a payload whose missing id comes after a stored one
C4_Witness ==
    /\ req.op = "create_recipe"
    /\ req.payload = [BasePayload EXCEPT !.ingredient_ids = <<1, 99>>]
    /\ resp.status = 404
    /\ resp.body[1].id = 99
    /\ 1 \in IngredientIdsStored

\* C5: POST /recipes with a payload the schema accepts, all of whose
\* ingredient_ids are stored (repeated ids and the empty list included), met
\* by no store failure, answers 201 with views_count 0, the payload's title and
\* cooking_time, and as many ingredients as the payload has distinct ids.
C5_CreatedWithDistinctIngredients ==
    [][( /\ req'.op = "create_recipe"
         /\ req'.store_ok
         /\ Handled(req'.payload)
         /\ Range(req'.payload.ingredient_ids) \subseteq IngredientIdsStored )
       => /\ resp'.op = "create_recipe"
          /\ resp'.status = 201
          /\ resp'.body[1].views_count = 0
          /\ resp'.body[1].title = req'.payload.title
          /\ resp'.body[1].cooking_time = req'.payload.cooking_time
          /\ Len(resp'.body[1].ingredients)
                = Cardinality(Range(req'.payload.ingredient_ids))
      ]_vars

\* C6: GET /recipes/{id} for an id no stored recipe has answers 404 with the
\* requested id in its detail and leaves the whole store as it was.
C6_UnknownRecipeNotFound ==
    [][(req'.op = "get_recipe" /\ req'.recipe_id \notin RecipeIdsStored)
       => /\ resp'.op = "get_recipe"
          /\ resp'.status = 404
          /\ resp'.body[1].id = req'.recipe_id
          /\ store' = store
      ]_vars

\* a 404 for a recipe id, sent while recipes are stored
C6_Witness ==
    /\ req.op = "get_recipe"
    /\ resp.status = 404
    /\ recipes # {}
    /\ req.recipe_id \notin RecipeIdsStored

\* what the claim asks of a payload: the four fields, a title of 1 to 200
\* characters, cooking_time > 0, a non-empty description
Claimed_valid(p) ==
    /\ DOMAIN p = {"title", "cooking_time", "description", "ingredient_ids"}
    /\ Len(p.title) >= 1 /\ Len(p.title) <= 200
    /\ p.cooking_time > 0
    /\ Len(p.description) >= 1

\* what the amended claim asks: the four fields, a title of at most 200
\* characters, cooking_time > 0
Amended_valid(p) ==
    /\ DOMAIN p = {"title", "cooking_time", "description", "ingredient_ids"}
    /\ Len(p.title) <= 200
    /\ p.cooking_time > 0

SeedIngredientRows == {[id |-> k, name |-> ingredients_data[k]] : k \in 1..21}

SeedTitles == {"Spaghetti Carbonara", "Apple pie", "Asian chicken with rice"}

\* the store holds exactly the 21 seed ingredients and the 3 seed recipes
SeedComplete ==
    /\ ingredients = SeedIngredientRows
    /\ Cardinality(recipes) = 3
    /\ {r.title : r \in recipes} = SeedTitles
    /\ Cardinality(recipe_ingredient) = 20

\* C8: a run of populate_test_data that starts with a recipe stored changes
\* nothing; a run that meets no store failure, started on the empty store or on
\* what a run that failed between its two commits left behind, ends with
\* exactly the 21 seed ingredients and the 3 seed recipes stored.
C8_SeedOnce ==
    [][req'.op = "populate_test_data"
       => /\ recipes # {} => store' = store
          /\ ( /\ req'.fault = "none"
               /\ recipes = {}
               /\ recipe_ingredient = {}
               /\ ingredients \in {{}, SeedIngredientRows} )
             => SeedComplete'
      ]_vars

\* C9: POST /recipes either leaves recipes and recipe_ingredient as they were,
\* or adds one recipe row together with one association row for each distinct
\* ingredient id of its payload, and nothing else; a failed commit included.
C9_CreateAllOrNothing ==
    [][req'.op = "create_recipe"
       => \/ /\ recipes' = recipes
             /\ recipe_ingredient' = recipe_ingredient
          \/ /\ Handled(req'.payload)
             /\ \E r \in recipes' :
                   /\ r.id \notin RecipeIdsStored
                   /\ recipes' = recipes \cup {r}
                   /\ recipe_ingredient' =
                         recipe_ingredient \cup
                         {[recipe_id |-> r.id, ingredient_id |-> g]
                            : g \in Range(req'.payload.ingredient_ids)}
      ]_vars

\* a commit failed on a payload with ingredients, and a recipe with two
\* ingredients was created
C9_WitnessFailedCommit ==
    /\ req.op = "create_recipe"
    /\ resp.status = 500
    /\ Len(req.payload.ingredient_ids) = 2

\* C10: in every step each stored recipe stays stored with its title,
\* cooking_time, description and ingredients; its views_count never decreases
\* and changes only, by 1, in a GET /recipes/{id} of that recipe answered 200.
C10_ViewsFrame ==
    [][\A r \in recipes :
          \E r2 \in recipes' :
             /\ r2.id = r.id
             /\ \A o \in recipes' : o.id = r.id => o = r2
             /\ r2.title = r.title
             /\ r2.cooking_time = r.cooking_time
             /\ r2.description = r.description
             /\ {x \in recipe_ingredient' : x.recipe_id = r.id}
                   = {x \in recipe_ingredient : x.recipe_id = r.id}
             /\ r2.views_count >= r.views_count
             /\ r2.views_count # r.views_count
                   => /\ r2.views_count = r.views_count + 1
                      /\ req'.op = "get_recipe"
                      /\ req'.recipe_id = r.id
                      /\ resp'.status = 200
      ]_vars

\* a recipe was fetched twice, a recipe created by POST is stored, and another
\* recipe was never fetched
C10_Witness ==
    /\ \E r \in recipes : r.views_count = 2
    /\ \E r \in recipes : r.views_count = 0
    /\ Created(recipes) # {}
    /\ Cardinality(recipes) = 4


\* every association row joins a stored recipe to a stored ingredient
ReferencesResolve ==
    \A x \in recipe_ingredient :
        /\ x.recipe_id \in RecipeIdsStored
        /\ x.ingredient_id \in IngredientIdsStored

\* C11: every row of recipe_ingredient refers to a stored recipe and a stored
\* ingredient in every state reached; a step of an HTTP endpoint leaves the
\* ingredients table as it was, and GET /ingredients answers with exactly
\* the stored ingredients, each once.
C11_ReferencesAndIngredientsFrame ==
    [][/\ ReferencesResolve'
       /\ req'.op # "populate_test_data" => ingredients' = ingredients
       /\ req'.op = "get_ingredients"
             => /\ resp'.status = 200
                /\ Len(resp'.body) = Cardinality(ingredients)
                /\ {[id |-> resp'.body[i].id, name |-> resp'.body[i].name]
                      : i \in 1..Len(resp'.body)} = ingredients
      ]_vars

\* GET /ingredients answered with the 21 ingredients while a recipe created
\* by POST /recipes is joined to two of them
C11_Witness ==
    /\ req.op = "get_ingredients"
    /\ Len(resp.body) = 21
    /\ \E r \in Created(recipes) :
          Cardinality({x \in recipe_ingredient : x.recipe_id = r.id}) = 2


====
